---- MODULE Spec2Model ----
(***************************************************************************)
(* Model of daemon/daemon.go of cbdynclusterd: the startup sequence of     *)
(* startDaemon, the periodic cleanup goroutine with cleanupClusters and    *)
(* its teardown goroutines, the signal watcher, and the shutdown           *)
(* handshake over shutdownSig / cleanupClosedSig.                          *)
(*                                                                         *)
(* getAllClusters, killCluster, NewContext and the REST router live in     *)
(* files of the repository that are not part of the sources at hand; they  *)
(* are modelled from the design document (ListAll, Kill, UserListAll).     *)
(***************************************************************************)
EXTENDS Integers, Sequences, FiniteSets, TLC

\* ---- bounds of the model ------------------------------------------------
MaxTimeout == 1        \* cluster Timeouts are drawn from 0..MaxTimeout
MaxTime == 1           \* the wall clock runs over 0..MaxTime

\* ---- program constants ---------------------------------------------------
SigChanCap == 1        \* c := make(chan os.Signal, 1)
SignalCap == 0         \* signal := make(chan error)

IDSeq == <<"A", "B", "C">>
IDs == {IDSeq[i] : i \in 1..Len(IDSeq)}
Rank(id) == CHOOSE i \in 1..Len(IDSeq) : IDSeq[i] = id
Users == {"alice", "bob"}
\* the owners of the clusters in the store: A and C are alice's, B is bob's
OwnerOf(id) == IF id = "B" THEN "bob" ELSE "alice"
Networks == {"macvlan0", "bridge"}

VARIABLES
    pcMain,         \* position of startDaemon
    pcSig,          \* position of the signal watcher goroutine
    pcRec,          \* position of the cleanup goroutine (incl. cleanupClusters)
    srv,            \* restServer: "new", "listening", "failed", "closed"
    c,              \* number of signals buffered in channel c
    metaOpen,       \* metaStore is open
    registry,       \* cluster records held by the meta-data store
    now,            \* the wall clock at its latest reading by time.Now()
    stderr,         \* lines written by log.Printf / the runtime's panic report
    events,         \* shutdown events in the order they happened
    systemCtx,      \* the global systemCtx
    signal,         \* current sweep: identity of the channel made for it (-1: none)
    listed,         \* current sweep: getAllClusters returned without error
    clusters,       \* current sweep: clusters returned by getAllClusters
    toExamine,      \* current sweep: clusters the partition loop has not reached
    sweepTime,      \* current sweep: first value of time.Now() (-1: none yet)
    clustersToKill, \* current sweep: clustersToKill
    launched,       \* current sweep: goroutines started by the launch loop
    tasks,          \* teardown goroutines alive: [id, ch, st, res]
    received,       \* current sweep: results received from signal
    killError,      \* current sweep: killError
    drained,        \* current sweep: <<id, err>> in the order received
    result,         \* return value of the last cleanupClusters call
    closedUse,      \* ListAll or Kill was issued while metaStore was closed
    lastList        \* last ListAll answered to a REST caller: [ctx, out]

vars == <<pcMain, pcSig, pcRec, srv, c, metaOpen, registry, now, stderr,
          events, systemCtx, signal, listed, clusters, toExamine, sweepTime,
          clustersToKill, launched, tasks, received, killError, drained,
          result, closedUse, lastList>>

sweepVars == <<signal, listed, clusters, toExamine, sweepTime, clustersToKill,
               launched, received, killError, drained, result>>

\* ---- errors --------------------------------------------------------------
NoErr == <<"nil", "">>
ListErr == <<"list", "">>
KillErr(id) == <<"kill", id>>
NotFound(id) == <<"notfound", id>>
Denied(id) == <<"denied", id>>

\* ---- ActorContext and the Cluster Service --------------------------------
NewContext(identity, isSystem) == [identity |-> identity, isSystem |-> isSystem]

NoCtx == NewContext("", FALSE)

\* variant: the cleanup context is created without the system privilege
SystemCtxUnprivileged == NewContext("system", FALSE)

\* systemCtx = NewContext(context.Background(), "system", true)
SystemCtx == NewContext("system", TRUE)

\* ListAll(ctx): every cluster for a system actor, the actor's own otherwise
ListAll(ctx, reg) ==
    IF ctx.isSystem THEN reg ELSE {cl \in reg : cl.Owner = ctx.identity}

\* Kill(ctx, id): the possible outcomes <<err, registry afterwards>>
Kill(ctx, id, reg) ==
    LET found == {cl \in reg : cl.ID = id} IN
    IF found = {} THEN {<<NotFound(id), reg>>}
    ELSE IF ~ctx.isSystem /\ (\E cl \in found : cl.Owner # ctx.identity)
         THEN {<<Denied(id), reg>>}
    ELSE {<<NoErr, reg \ found>>, <<KillErr(id), reg>>}

\* variant: the comparison also takes a Timeout equal to the instant read
BeforeOrEqual(t, u) == t <= u

\* t.Before(u)
Before(t, u) == t < u

\* hasMacvlan0's loop over the listed networks
HasMacvlan0(networks) == \E network \in networks : network = "macvlan0"

Running == pcMain \notin {"returned", "panicked"}

Log(line) == stderr' = stderr \cup {line}

\* ---- initial state -------------------------------------------------------
Init ==
    /\ pcMain = "openMeta"
    /\ pcSig = "notstarted"
    /\ pcRec = "notstarted"
    /\ srv = "new"
    /\ c = 0
    /\ metaOpen = FALSE
    /\ \E present \in SUBSET IDs :
         \E timeout \in [IDs -> 0..MaxTimeout] :
           registry = {[ID |-> i, Owner |-> OwnerOf(i), Timeout |-> timeout[i]] :
                         i \in present}
    /\ now = 0
    /\ stderr = {}
    /\ events = <<>>
    /\ systemCtx = NoCtx
    /\ signal = -1
    /\ listed = FALSE
    /\ clusters = {}
    /\ toExamine = {}
    /\ sweepTime = -1
    /\ clustersToKill = <<>>
    /\ launched = 0
    /\ tasks = {}
    /\ received = 0
    /\ killError = NoErr
    /\ drained = <<>>
    /\ result = NoErr
    /\ closedUse = FALSE
    /\ lastList = [ctx |-> NoCtx, out |-> {}]

\* ---- environment ---------------------------------------------------------
\* os.Interrupt delivered to c by signal.Notify (dropped when c is full)
Interrupt ==
    /\ Running
    /\ pcSig # "notstarted"
    /\ c < SigChanCap
    /\ c' = c + 1
    /\ UNCHANGED <<pcMain, pcSig, pcRec, srv, metaOpen, registry, now, stderr,
                   events, systemCtx, sweepVars, tasks, closedUse, lastList>>

\* a REST handler lists clusters for a caller while the server is listening
UserListAll ==
    /\ Running
    /\ srv = "listening"
    /\ \E u \in Users :
         LET ctx == NewContext(u, FALSE) IN
         lastList' = [ctx |-> ctx, out |-> ListAll(ctx, registry)]
    /\ closedUse' = (closedUse \/ ~metaOpen)
    /\ UNCHANGED <<pcMain, pcSig, pcRec, srv, c, metaOpen, registry, now,
                   stderr, events, systemCtx, sweepVars, tasks>>

\* ---- startDaemon: startup ------------------------------------------------
mainFrame == <<pcSig, srv, c, registry, now, events, sweepVars, tasks,
               closedUse, lastList>>

\* err := openMeta()
OpenMeta ==
    /\ pcMain = "openMeta"
    /\ \/ /\ metaOpen' = TRUE
          /\ pcMain' = "connectDocker"
          /\ UNCHANGED stderr
       \/ /\ Log("Failed to open meta db")
          /\ pcMain' = "returned"
          /\ UNCHANGED metaOpen
    /\ UNCHANGED <<pcRec, systemCtx>>
    /\ UNCHANGED mainFrame

\* err = connectDocker()
ConnectDocker ==
    /\ pcMain = "connectDocker"
    /\ \/ /\ pcMain' = "hasMacvlan0"
          /\ UNCHANGED stderr
       \/ /\ Log("Failed to connect to docker")
          /\ pcMain' = "returned"
    /\ UNCHANGED <<pcRec, systemCtx, metaOpen>>
    /\ UNCHANGED mainFrame

\* variant: the missing network is logged but the return is forgotten
AfterMacvlanCheckNoReturn(found) ==
    /\ pcMain' = "spawn"
    /\ IF found THEN UNCHANGED stderr
                ELSE Log("Failed to locate macvlan0 network on docker host")

\* what startDaemon does with the answer of hasMacvlan0()
AfterMacvlanCheck(found) ==
    IF found
    THEN /\ pcMain' = "spawn"
         /\ UNCHANGED stderr
    ELSE /\ Log("Failed to locate macvlan0 network on docker host")
         /\ pcMain' = "returned"

\* if !hasMacvlan0() { ... return }; docker.NetworkList may fail: panic(err)
CheckMacvlan0 ==
    /\ pcMain = "hasMacvlan0"
    /\ \/ /\ Log("panic: NetworkList")
          /\ pcMain' = "panicked"
       \/ \E networks \in SUBSET Networks : AfterMacvlanCheck(HasMacvlan0(networks))
    /\ UNCHANGED <<pcRec, systemCtx, metaOpen>>
    /\ UNCHANGED mainFrame

\* systemCtx = NewContext(...); the two channels; go func() { for { ... } }()
SpawnCleanup ==
    /\ pcMain = "spawn"
    /\ systemCtx' = SystemCtx
    /\ pcRec' = "select"
    /\ pcMain' = "print"
    /\ UNCHANGED <<metaOpen, stderr>>
    /\ UNCHANGED mainFrame

\* getAndPrintClusters(systemCtx) (its lines are display only); restServer := ...;
\* signal.Notify(c, os.Interrupt); go func() { <-c ... }(); "Daemon is starting"
StartSignalWatcher ==
    /\ pcMain = "print"
    /\ closedUse' = (closedUse \/ ~metaOpen)
    /\ pcSig' = "waiting"
    /\ pcMain' = "listen"
    /\ Log("Daemon is starting")
    /\ UNCHANGED <<pcRec, srv, c, metaOpen, registry, now, events, systemCtx,
                   sweepVars, tasks, lastList>>

\* ---- signal watcher ------------------------------------------------------
\* <-c; log.Printf("Received shutdown signal..."); restServer.Close()
SigClose ==
    /\ Running
    /\ pcSig = "waiting"
    /\ c > 0
    /\ c' = c - 1
    /\ Log("Received shutdown signal")
    /\ srv' = "closed"
    /\ pcSig' = "done"
    /\ UNCHANGED <<pcMain, pcRec, metaOpen, registry, now, events,
                   systemCtx, sweepVars, tasks, closedUse, lastList>>

\* ---- startDaemon: listener and shutdown ----------------------------------
listenFrame == <<pcSig, pcRec, c, metaOpen, registry, now, systemCtx,
                 sweepVars, tasks, closedUse, lastList>>

\* ListenAndServe returned err (it never returns nil): log it and go on
\* variant: the handshake is skipped unless the server was closed by the watcher
AfterListenErrorSkips(closed) == IF closed THEN "sendShutdown" ELSE "closeMeta"

\* where startDaemon goes once ListenAndServe returned, whatever err is
AfterListen(closed) == "sendShutdown"

ListenerStopped(closed) ==
    /\ Log("Error")
    /\ events' = Append(events, "listenerStopped")
    /\ pcMain' = AfterListen(closed)

\* restServer.ListenAndServe() is entered
ListenStart ==
    /\ pcMain = "listen"
    /\ \/ /\ srv = "closed"
          /\ ListenerStopped(TRUE)
          /\ UNCHANGED srv
       \/ /\ srv = "new"
          /\ ListenerStopped(FALSE)
          /\ srv' = "failed"
       \/ /\ srv = "new"
          /\ srv' = "listening"
          /\ pcMain' = "serving"
          /\ UNCHANGED <<stderr, events>>
    /\ UNCHANGED listenFrame

\* ListenAndServe returns: the server was closed, or Accept failed
ListenReturn ==
    /\ pcMain = "serving"
    /\ \/ /\ srv = "closed"
          /\ ListenerStopped(TRUE)
          /\ UNCHANGED srv
       \/ /\ srv = "listening"
          /\ ListenerStopped(FALSE)
          /\ srv' = "failed"
    /\ UNCHANGED listenFrame

\* variant: the shutdown request is also taken while a sweep is under way
ShutdownReadyMidSweep(pm, pr) ==
    pm = "sendShutdown" /\ pr \in {"select", "list", "partition", "launch", "drain", "ret"}

\* variant: startDaemon waits for the acknowledgement before it sends the request
ShutdownReadySwapped(pm, pr) == pm = "waitAck" /\ pr = "select"

\* shutdownSig <- struct{}{} meets case <-shutdownSig of the cleanup goroutine
ShutdownReady(pm, pr) == pm = "sendShutdown" /\ pr = "select"

SendShutdown ==
    /\ ShutdownReady(pcMain, pcRec)
    /\ pcMain' = "waitAck"
    /\ pcRec' = "ack"
    /\ UNCHANGED <<pcSig, srv, c, metaOpen, registry, now, stderr, events,
                   systemCtx, sweepVars, tasks, closedUse, lastList>>

\* variant: the return after the acknowledgement is missing
AfterAckLoop == "select"

\* cleanupClosedSig <- struct{}{}; return
AfterAck == "done"

\* cleanupClosedSig <- struct{}{} meets <-cleanupClosedSig of startDaemon
AckReady(pm, pr) == pm = "waitAck" /\ pr = "ack"

RecvAck ==
    /\ AckReady(pcMain, pcRec)
    /\ pcMain' = "closeMeta"
    /\ pcRec' = AfterAck
    /\ events' = Append(events, "ackReceived")
    /\ UNCHANGED <<pcSig, srv, c, metaOpen, registry, now, stderr,
                   systemCtx, sweepVars, tasks, closedUse, lastList>>

\* variant: the store is closed without waiting for the acknowledgement
CloseMetaAtNoWait(pm) == pm \in {"waitAck", "closeMeta"}

\* where startDaemon closes the store: after <-cleanupClosedSig
CloseMetaAt(pm) == pm = "closeMeta"

\* variant: a failed Close is tried again
AfterCloseRetry(failed) == IF failed THEN "closeMeta" ELSE "logDone"

\* where startDaemon goes after metaStore.Close(), failed or not
AfterClose(failed) == "logDone"

\* err = metaStore.Close(); a failure is logged
CloseMeta ==
    /\ CloseMetaAt(pcMain)
    /\ metaOpen' = FALSE
    /\ events' = Append(events, "registryClosed")
    /\ \/ /\ UNCHANGED stderr
          /\ pcMain' = AfterClose(FALSE)
       \/ /\ Log("Failed to close meta db")
          /\ pcMain' = AfterClose(TRUE)
    /\ UNCHANGED <<pcSig, pcRec, srv, c, registry, now, systemCtx, sweepVars,
                   tasks, closedUse, lastList>>

\* log.Printf("Graceful shutdown completed."); startDaemon returns
LogDone ==
    /\ pcMain = "logDone"
    /\ Log("Graceful shutdown completed.")
    /\ pcMain' = "returned"
    /\ UNCHANGED <<pcSig, pcRec, srv, c, metaOpen, registry, now, events,
                   systemCtx, sweepVars, tasks, closedUse, lastList>>

\* ---- cleanup goroutine ---------------------------------------------------
recFrame == <<pcMain, pcSig, srv, c, metaOpen, now, events, systemCtx, lastList>>

\* case <-time.After(5 * time.Minute): leave the select, enter cleanupClusters
TimerFire ==
    /\ Running
    /\ pcRec = "select"
    /\ pcRec' = "list"
    /\ Log("Cleaning up dead clusters")
    /\ UNCHANGED <<signal, listed, clusters, toExamine, sweepTime,
                   clustersToKill, launched, received, killError, drained,
                   result>>
    /\ UNCHANGED <<registry, tasks, closedUse>>
    /\ UNCHANGED recFrame

\* the locals of cleanupClusters before its first statement
FreshLocals ==
    /\ signal' = -1
    /\ listed' = FALSE
    /\ clusters' = {}
    /\ toExamine' = {}
    /\ sweepTime' = -1
    /\ clustersToKill' = <<>>
    /\ launched' = 0
    /\ received' = 0
    /\ killError' = NoErr
    /\ drained' = <<>>

\* clusters, err := getAllClusters(systemCtx); if err != nil { return err }
SweepList ==
    /\ Running
    /\ pcRec = "list"
    /\ closedUse' = (closedUse \/ ~metaOpen)
    /\ \/ /\ result' = ListErr
          /\ pcRec' = "ret"
          /\ UNCHANGED <<listed, clusters, toExamine>>
       \/ /\ listed' = TRUE
          /\ clusters' = ListAll(systemCtx, registry)
          /\ toExamine' = clusters'
          /\ pcRec' = "partition"
          /\ UNCHANGED result
    /\ UNCHANGED <<signal, sweepTime, clustersToKill, launched, received,
                   killError, drained>>
    /\ UNCHANGED <<registry, tasks, stderr>>
    /\ UNCHANGED recFrame

\* the cluster the range loop visits next (the listing is in ID order)
NextCluster(S) == CHOOSE cl \in S : \A other \in S : Rank(cl.ID) <= Rank(other.ID)

\* one iteration of: for _, cluster := range clusters { if cluster.Timeout.Before(time.Now()) ... }
\* time.Now() reads the clock anew: any instant not before the latest reading
Partition ==
    /\ Running
    /\ pcRec = "partition"
    /\ toExamine # {}
    /\ \E t \in now..MaxTime : now' = t
    /\ LET cluster == NextCluster(toExamine) IN
         /\ toExamine' = toExamine \ {cluster}
         /\ clustersToKill' = IF Before(cluster.Timeout, now')
                                THEN Append(clustersToKill, cluster.ID)
                                ELSE clustersToKill
    /\ sweepTime' = IF sweepTime = -1 THEN now' ELSE sweepTime
    /\ UNCHANGED <<pcRec, signal, listed, clusters, launched, received,
                   killError, drained, result>>
    /\ UNCHANGED <<registry, tasks, closedUse, stderr>>
    /\ UNCHANGED <<pcMain, pcSig, srv, c, metaOpen, events, systemCtx, lastList>>

\* make(chan error): a channel no goroutine holds yet
FreshChan(alive) ==
    CHOOSE n \in 0..Cardinality(alive) : \A t \in alive : t.ch # n

\* the range loop is over; signal := make(chan error)
PartitionDone ==
    /\ Running
    /\ pcRec = "partition"
    /\ toExamine = {}
    /\ pcRec' = "launch"
    /\ signal' = FreshChan(tasks)
    /\ UNCHANGED <<listed, clusters, toExamine, sweepTime,
                   clustersToKill, launched, received, killError, drained,
                   result>>
    /\ UNCHANGED <<registry, tasks, closedUse, stderr>>
    /\ UNCHANGED recFrame

\* variant: no further goroutine is started once a teardown has failed
LaunchMoreUnlessFailed(l, n, alive) ==
    l < n /\ \A t \in alive : t.res = NoErr

\* the launch loop has another clusterID to go through
LaunchMore(l, n, alive) == l < n

\* variant: the goroutines share the loop variable and see its last value
LaunchTargetCaptured(ids, i) == ids[Len(ids)]

\* the clusterID handed to the i-th goroutine: go func(clusterID string) {...}(clusterID)
LaunchTarget(ids, i) == ids[i]

\* one iteration of: for _, clusterID := range clustersToKill { go func... }
Launch ==
    /\ Running
    /\ pcRec = "launch"
    /\ LaunchMore(launched, Len(clustersToKill), tasks)
    /\ launched' = launched + 1
    /\ tasks' = tasks \cup {[id |-> LaunchTarget(clustersToKill, launched + 1), ch |-> signal,
                             st |-> "killing", res |-> NoErr]}
    /\ UNCHANGED <<pcRec, signal, listed, clusters, toExamine, sweepTime,
                   clustersToKill, received, killError, drained, result>>
    /\ UNCHANGED <<registry, closedUse, stderr>>
    /\ UNCHANGED recFrame

\* the launch loop is over; var killError error
LaunchDone ==
    /\ Running
    /\ pcRec = "launch"
    /\ ~LaunchMore(launched, Len(clustersToKill), tasks)
    /\ pcRec' = "drain"
    /\ UNCHANGED <<signal, listed, clusters, toExamine, sweepTime,
                   clustersToKill, launched, received, killError, drained,
                   result>>
    /\ UNCHANGED <<registry, tasks, closedUse, stderr>>
    /\ UNCHANGED recFrame

\* a teardown goroutine: killCluster(systemCtx, clusterID) returns
KillReturn ==
    /\ Running
    /\ \E t \in tasks :
         /\ t.st = "killing"
         /\ \E o \in Kill(systemCtx, t.id, registry) :
              /\ registry' = o[2]
              /\ tasks' = (tasks \ {t}) \cup {[t EXCEPT !.st = "sending", !.res = o[1]]}
    /\ closedUse' = (closedUse \/ ~metaOpen)
    /\ UNCHANGED <<pcRec, stderr>>
    /\ UNCHANGED sweepVars
    /\ UNCHANGED recFrame

\* variant: every result overwrites killError
TrackErrorOverwrite(kerr, err) == err

\* variant: a later failure replaces an earlier one
TrackErrorLast(kerr, err) == IF err # NoErr THEN err ELSE kerr

\* if err != nil && killError == nil { killError = err }
TrackError(kerr, err) == IF err # NoErr /\ kerr = NoErr THEN err ELSE kerr

\* variant: the drain loop returns at the first failure
DrainCompleteEarly(rcv, n, kerr) == rcv = n \/ kerr # NoErr

\* variant: the drain loop receives at least once
DrainCompleteAtLeastOne(rcv, n, kerr) == rcv = n /\ rcv > 0

\* the condition that ends: for range clustersToKill { err := <-signal ... }
DrainComplete(rcv, n, kerr) == rcv = n

\* signal <- killCluster(...) of a goroutine meets err := <-signal of the sweep
DrainRecv ==
    /\ Running
    /\ pcRec = "drain"
    /\ ~DrainComplete(received, Len(clustersToKill), killError)
    /\ \E t \in tasks :
         /\ t.st = "sending"
         /\ t.ch = signal
         /\ tasks' = tasks \ {t}
         /\ killError' = TrackError(killError, t.res)
         /\ drained' = Append(drained, <<t.id, t.res>>)
    /\ received' = received + 1
    /\ UNCHANGED <<pcRec, signal, listed, clusters, toExamine, sweepTime,
                   clustersToKill, launched, result>>
    /\ UNCHANGED <<registry, closedUse, stderr>>
    /\ UNCHANGED recFrame

\* if killError != nil { return killError }; return nil
DrainDone ==
    /\ Running
    /\ pcRec = "drain"
    /\ DrainComplete(received, Len(clustersToKill), killError)
    /\ result' = killError
    /\ pcRec' = "ret"
    /\ UNCHANGED <<signal, listed, clusters, toExamine, sweepTime,
                   clustersToKill, launched, received, killError, drained>>
    /\ UNCHANGED <<registry, tasks, closedUse, stderr>>
    /\ UNCHANGED recFrame

\* log.Printf("Failed to cleanup old clusters: %s", err)
FailLine(err) ==
    IF err = ListErr THEN "Failed to cleanup old clusters: listing"
                     ELSE "Failed to cleanup old clusters: teardown"

\* variant: the loop ends when a sweep fails
AfterSweepStopOnError(err) == IF err # NoErr THEN "done" ELSE "select"

\* where the loop goes after cleanupClusters returned err: its next iteration
AfterSweep(err) == "select"

\* err := cleanupClusters(); if err != nil { log.Printf(...) }; next iteration
SweepReturn ==
    /\ Running
    /\ pcRec = "ret"
    /\ IF result # NoErr THEN Log(FailLine(result))
                         ELSE UNCHANGED stderr
    /\ result' = NoErr
    /\ FreshLocals
    /\ pcRec' = AfterSweep(result)
    /\ UNCHANGED <<registry, tasks, closedUse>>
    /\ UNCHANGED recFrame

\* ---- specification -------------------------------------------------------
Next ==
    \/ Interrupt
    \/ UserListAll
    \/ OpenMeta
    \/ ConnectDocker
    \/ CheckMacvlan0
    \/ SpawnCleanup
    \/ StartSignalWatcher
    \/ SigClose
    \/ ListenStart
    \/ ListenReturn
    \/ SendShutdown
    \/ RecvAck
    \/ CloseMeta
    \/ LogDone
    \/ TimerFire
    \/ SweepList
    \/ Partition
    \/ PartitionDone
    \/ Launch
    \/ LaunchDone
    \/ KillReturn
    \/ DrainRecv
    \/ DrainDone
    \/ SweepReturn

Spec == Init /\ [][Next]_vars

TypeOK ==
    /\ pcMain \in {"openMeta", "connectDocker", "hasMacvlan0", "spawn", "print",
                   "listen", "serving", "sendShutdown", "waitAck",
                   "closeMeta", "logDone", "returned", "panicked"}
    /\ pcSig \in {"notstarted", "waiting", "done"}
    /\ pcRec \in {"notstarted", "select", "list", "partition", "launch",
                  "drain", "ret", "ack", "done"}
    /\ srv \in {"new", "listening", "failed", "closed"}
    /\ c \in 0..SigChanCap
    /\ now \in 0..MaxTime
    /\ received \in 0..Len(clustersToKill)
    /\ launched \in 0..Len(clustersToKill)

\* ---- notions used by the properties --------------------------------------
Happened(e) == \E i \in DOMAIN events : events[i] = e

Logged(line) == line \in stderr

ShutdownSequence == <<"listenerStopped", "ackReceived", "registryClosed">>

\* cleanupClusters has passed its partition loop after a successful listing
Partitioned == listed /\ pcRec \in {"launch", "drain", "ret"}

\* cleanupClusters has listed successfully and is about to return
Swept == listed /\ pcRec = "ret"

\* positions of the failures among the results drained so far
Failures == {i \in 1..Len(drained) : drained[i][2] # NoErr}

\* the first failure of a sequence of drained results, NoErr if there is none
RECURSIVE FirstFailure(_)
FirstFailure(rs) ==
    IF rs = <<>> THEN NoErr
    ELSE IF Head(rs)[2] # NoErr THEN Head(rs)[2]
    ELSE FirstFailure(Tail(rs))

Candidates == {clustersToKill[i] : i \in 1..Len(clustersToKill)}

\* ---- C1 ------------------------------------------------------------------
\* C1: in every run the shutdown events happen in the order listener stopped,
\* acknowledgement of the cleanup goroutine received, meta-data store closed:
\* at any moment the events so far are a prefix of that sequence.
C1_ShutdownOrder ==
    \E k \in 0..Len(ShutdownSequence) : events = SubSeq(ShutdownSequence, 1, k)

C1_Witness ==
    /\ pcMain = "returned"
    /\ events = ShutdownSequence
    /\ Logged("Received shutdown signal")
    /\ Logged("Cleaning up dead clusters")

\* ---- C2 ------------------------------------------------------------------
\* C2: from the moment the acknowledgement is received, and so whenever the
\* store is closed, cleanupClusters is not executing, no teardown goroutine is
\* running or blocked on its send, and no listing or kill was ever issued
\* against the closed store.
C2_NoSweepAfterAck ==
    /\ (Happened("ackReceived") \/ Happened("registryClosed"))
          => (pcRec = "done" /\ tasks = {})
    /\ ~closedUse

C2_Witness ==
    /\ Happened("registryClosed")
    /\ ~metaOpen
    /\ Logged("Failed to cleanup old clusters: teardown")
    /\ \E cl \in registry : cl.Timeout < now

\* ---- C3 ------------------------------------------------------------------
\* C3: the teardown goroutines of a sweep are exactly the clusters whose
\* Timeout is strictly before the one instant the sweep sampled (its first
\* reading of the clock), also when the clock advances during the partition.
C3_SingleSample ==
    Partitioned =>
        /\ Len(clustersToKill) = Cardinality({cl \in clusters : cl.Timeout < sweepTime})
        /\ \A cl \in clusters : cl.ID \in Candidates => cl.Timeout < sweepTime
        /\ (pcRec \in {"drain", "ret"} => launched = Len(clustersToKill))

\* ---- C4 ------------------------------------------------------------------
\* C4: sweeps never overlap: whenever the cleanup goroutine is at its wait
\* point, is calling ListAll or is partitioning, no teardown goroutine of an
\* earlier sweep is alive, and every goroutine alive reports to the channel of
\* the sweep in progress.
C4_SweepsSequential ==
    /\ pcRec \in {"select", "list", "partition", "ack", "done"} => tasks = {}
    /\ \A t \in tasks : t.ch = signal

C4_Witness ==
    /\ pcRec = "list"
    /\ Logged("Failed to cleanup old clusters: teardown")
    /\ registry # {}

\* ---- C5 ------------------------------------------------------------------
\* C5: a sweep returns only after one result per candidate has been received,
\* and if exactly one candidate failed, at whatever position of the drain
\* order, the sweep returns that candidate's error.
C5_SingleFailure ==
    Swept =>
        /\ received = Len(clustersToKill)
        /\ Len(drained) = Len(clustersToKill)
        /\ {drained[i][1] : i \in 1..Len(drained)} = Candidates
        /\ \A j \in 1..Len(drained) :
             Failures = {j} => result = drained[j][2] /\ result[2] = drained[j][1]

C5_Witness ==
    /\ Swept
    /\ Len(drained) = 3
    /\ Failures = {2}
    /\ result = KillErr(drained[2][1])

\* ---- C6 ------------------------------------------------------------------
\* C6: the error tracked by a sweep is at every moment the first failure in
\* the order the results were received, later failures never replace it, and
\* it is what the sweep returns.
C6_FirstFailureWins ==
    /\ (listed /\ pcRec \in {"drain", "ret"}) => killError = FirstFailure(drained)
    /\ Swept => result = FirstFailure(drained)

C6_Witness ==
    /\ Swept
    /\ Len(drained) = 3
    /\ Failures = {2, 3}
    /\ result = drained[2][2]
    /\ result # drained[3][2]

\* ---- C7 ------------------------------------------------------------------
\* C7: a sweep whose listing is empty, or holds no cluster whose Timeout is
\* before the clock as last read, has no candidates, starts no goroutine,
\* finds its drain loop finished without receiving, and returns no error.
C7_NothingExpired ==
    (Partitioned /\ \A cl \in clusters : ~(cl.Timeout < now)) =>
        /\ clustersToKill = <<>>
        /\ launched = 0
        /\ tasks = {}
        /\ received = 0
        /\ (pcRec = "drain" => received = Len(clustersToKill))
        /\ (pcRec = "ret" => result = NoErr)

C7_Witness ==
    /\ Swept
    /\ Cardinality(clusters) = 3
    /\ now = 1
    /\ \A cl \in clusters : cl.Timeout = 1
    /\ result = NoErr
    /\ registry = clusters

\* ---- C8 ------------------------------------------------------------------
\* C8: a sweep never kills a cluster whose Timeout is at or after the instant
\* the sweep sampled (its first reading of the clock), and that cluster is
\* still in the store when the sweep returns.
C8_AliveUntouched ==
    Partitioned =>
        \A cl \in clusters :
            ~(cl.Timeout < sweepTime) => (cl.ID \notin Candidates /\ cl \in registry)

\* ---- C9 ------------------------------------------------------------------
\* C9: a listing for an actor without the system privilege is exactly the
\* clusters of the store owned by the actor's identity; the listing of a sweep,
\* made under the system context of startDaemon, is every cluster of the store,
\* whoever owns it.
C9_ActorPrivilege ==
    [][ /\ lastList' # lastList =>
              /\ ~lastList'.ctx.isSystem
              /\ lastList'.out = {cl \in registry : cl.Owner = lastList'.ctx.identity}
        /\ (pcRec = "list" /\ pcRec' = "partition") =>
              /\ systemCtx.isSystem
              /\ clusters' = registry
              /\ \A u \in Users : \A cl \in registry : cl.Owner = u => cl \in clusters'
      ]_vars

C9_Witness ==
    /\ lastList.ctx = NewContext("alice", FALSE)
    /\ {cl.ID : cl \in lastList.out} = {"A", "C"}
    /\ {cl.ID : cl \in registry} = {"A", "B", "C"}
    /\ listed
    /\ clusters = registry

\* ---- C10 -----------------------------------------------------------------
StartupFailures ==
    {"Failed to open meta db", "Failed to connect to docker",
     "Failed to locate macvlan0 network on docker host", "panic: NetworkList"}

\* C10: when opening the store, connecting to docker or finding macvlan0
\* fails, startDaemon ends with the cause on stderr and the listener, the
\* signal watcher and the cleanup goroutine are never started; and startDaemon
\* ends before the listener only with such a cause.
C10_StartupFatal ==
    /\ (StartupFailures \cap stderr # {}) =>
          /\ pcMain \in {"returned", "panicked"}
          /\ pcRec = "notstarted"
          /\ pcSig = "notstarted"
          /\ srv = "new"
          /\ events = <<>>
          /\ ~Logged("Daemon is starting")
    /\ (pcMain \in {"returned", "panicked"} /\ ~Happened("listenerStopped")) =>
          StartupFailures \cap stderr # {}
    /\ (pcRec # "notstarted" \/ srv # "new") =>
          pcMain \notin {"openMeta", "connectDocker", "hasMacvlan0"}

C10_Witness ==
    /\ pcMain = "returned"
    /\ Logged("Failed to locate macvlan0 network on docker host")
    /\ pcRec = "notstarted"
    /\ srv = "new"

\* ---- notions used by the later properties --------------------------------
InSweep == pcRec \in {"list", "partition", "launch", "drain", "ret"}

\* teardown goroutines of the sweep in progress
OwnTasks == {t \in tasks : t.ch = signal}

DrainedIDs == {drained[i][1] : i \in 1..Len(drained)}

\* ---- C11 -----------------------------------------------------------------
\* C11: when getAllClusters fails the sweep returns the listing error at once,
\* with no candidate, no goroutine started and no kill issued; the loop then
\* logs the error and goes back to its select, where the timer can fire again.
C11_ListFailureAborts ==
    /\ [](  (pcRec = "ret" /\ ~listed) =>
               /\ result = ListErr
               /\ clustersToKill = <<>>
               /\ launched = 0
               /\ tasks = {}
               /\ drained = <<>>)
    /\ [][ (pcRec = "ret" /\ ~listed /\ pcRec' # pcRec) =>
               /\ pcRec' = "select"
               /\ registry' = registry
               /\ "Failed to cleanup old clusters: listing" \in stderr' ]_vars
    /\ []((pcRec = "select" /\ Running) => ENABLED TimerFire)

C11_Witness ==
    /\ pcRec = "list"
    /\ Logged("Failed to cleanup old clusters: listing")
    /\ ~Logged("Failed to cleanup old clusters: teardown")
    /\ \E cl \in registry : cl.Timeout < now

\* ---- C12 -----------------------------------------------------------------
\* a goroutine holding its result can hand it over at once: the channel has
\* room, or the sweep is at the matching receive
CanDeliver(t) ==
    \/ SignalCap > 0
    \/ pcRec = "drain" /\ t.ch = signal /\ received < Len(clustersToKill)

\* C12 as stated: the result channel has room for one result per candidate, so
\* a goroutine that finished its kill never waits for the sweep to receive.
C12_BufferedChannel ==
    /\ Partitioned => SignalCap = Len(clustersToKill)
    /\ \A t \in tasks : t.st = "sending" => CanDeliver(t)

\* C12 as amended: the result channel is unbuffered; a result leaves its
\* goroutine only in a receive of the sweep, so every goroutine started is
\* alive or has been received from; the sweep has received everything when it
\* returns, and with no candidate its drain loop is finished at once.
C12_UnbufferedChannel ==
    /\ InSweep => /\ launched = Cardinality(OwnTasks) + received
                  /\ Len(drained) = received
    /\ \A t \in tasks : (t.st = "sending" /\ pcRec # "drain") => ~CanDeliver(t)
    /\ pcRec = "ret" => tasks = {}
    /\ (pcRec = "drain" /\ clustersToKill = <<>>)
          => DrainComplete(received, Len(clustersToKill), killError)

C12_Witness ==
    /\ pcRec = "launch"
    /\ launched = 1
    /\ Len(clustersToKill) = 3
    /\ \E t \in tasks : t.st = "sending"

\* ---- C13 -----------------------------------------------------------------
\* C13: whatever the outcomes and the order of completion, a sweep that
\* returns has received one result from each goroutine it started, and none of
\* them is still running or blocked on its send.
C13_NoTaskAbandoned ==
    Swept =>
        /\ launched = Len(clustersToKill)
        /\ received = launched
        /\ DrainedIDs = Candidates
        /\ Cardinality(DrainedIDs) = Len(drained)
        /\ tasks = {}

C13_Witness ==
    /\ Swept
    /\ Len(drained) = 3
    /\ Failures = {1}
    /\ tasks = {}

\* ---- C14 -----------------------------------------------------------------
\* C14: a failed teardown holds back neither the other teardowns nor the
\* daemon: once the launch loop is over a goroutine was started for every
\* candidate, whatever the others reported, and after a sweep returned, with
\* an error or not, the loop is at its select again.
C14_FailureDoesNotBlock ==
    /\ []((listed /\ pcRec \in {"drain", "ret"}) =>
             /\ launched = Len(clustersToKill)
             /\ {t.id : t \in OwnTasks} \cup DrainedIDs = Candidates)
    /\ [][(pcRec = "ret" /\ pcRec' # pcRec) => pcRec' = "select"]_vars

C14_Witness ==
    /\ pcRec = "drain"
    /\ Logged("Failed to cleanup old clusters: teardown")
    /\ Failures = {1}
    /\ \E t \in tasks : t.st = "killing"

\* ---- C15 -----------------------------------------------------------------
\* C15: within one sweep the candidate IDs are pairwise different, and so
\* are the clusters its goroutines kill: every goroutine started has its own
\* candidate, and no ID is drained twice.
C15_DistinctTargets ==
    /\ Cardinality(Candidates) = Len(clustersToKill)
    /\ Cardinality({cl.ID : cl \in clusters}) = Cardinality(clusters)
    /\ InSweep =>
          /\ Cardinality({t.id : t \in OwnTasks}) + Cardinality(DrainedIDs) = launched
          /\ {t.id : t \in OwnTasks} \cap DrainedIDs = {}
          /\ Len(drained) = Cardinality(DrainedIDs)

C15_Witness ==
    /\ pcRec = "drain"
    /\ Len(clustersToKill) = 3
    /\ Cardinality(tasks) = 3

\* ---- C16 -----------------------------------------------------------------
\* C16: the shutdown request is taken only in the select of the loop: while a
\* sweep is under way startDaemon stays blocked on its send and the sweep goes
\* on; a signal or the stop of the listener leaves the sweep and its
\* goroutines as they are; the acknowledgement is sent from the select only,
\* after the sweep returned with every result received.
C16_ShutdownBetweenSweeps ==
    /\ [][(pcMain = "sendShutdown" /\ InSweep) =>
             /\ pcMain' = "sendShutdown"
             /\ pcRec' \in {"list", "partition", "launch", "drain", "ret", "select"}]_vars
    /\ [][(InSweep /\ (c' # c \/ srv' # srv \/ pcSig' # pcSig \/ pcMain' # pcMain)) =>
             UNCHANGED <<pcRec, tasks, sweepVars, registry>>]_vars
    /\ [][(pcRec # "ack" /\ pcRec' = "ack") =>
             /\ pcRec = "select"
             /\ pcMain = "sendShutdown"
             /\ tasks = {}]_vars
    /\ []((pcMain = "sendShutdown" /\ Swept) =>
             /\ received = Len(clustersToKill)
             /\ launched = Len(clustersToKill)
             /\ tasks = {})
    /\ [](pcRec = "ack" => (tasks = {} /\ signal = -1 /\ clustersToKill = <<>>))

C16_Witness ==
    /\ pcMain = "sendShutdown"
    /\ Logged("Received shutdown signal")
    /\ pcRec = "drain"
    /\ received = 1
    /\ \E t \in tasks : t.st = "killing"

\* ---- C17 -----------------------------------------------------------------
AckCount == Cardinality({i \in DOMAIN events : events[i] = "ackReceived"})

\* C17: the cleanup goroutine sends its acknowledgement only after it took
\* the shutdown request, sends it once, and then is over for good: it never
\* waits on the timer, lists or kills again.
C17_AckOnceThenDone ==
    /\ [][(pcRec # "ack" /\ pcRec' = "ack") =>
             (pcMain = "sendShutdown" /\ pcMain' = "waitAck")]_vars
    /\ [][(pcRec = "ack" /\ pcRec' # "ack") =>
             (pcRec' = "done" /\ events' = Append(events, "ackReceived"))]_vars
    /\ [][pcRec = "done" =>
             (pcRec' = "done" /\ tasks' = {} /\ UNCHANGED <<registry, sweepVars>>)]_vars
    /\ [](AckCount <= 1)
    /\ [](pcRec = "done" => (AckCount = 1 /\ tasks = {} /\ ~ENABLED TimerFire))

C17_Witness ==
    /\ pcRec = "done"
    /\ pcMain = "logDone"
    /\ AckCount = 1
    /\ Logged("Cleaning up dead clusters")

\* ---- C18 -----------------------------------------------------------------
CloseCount == Cardinality({i \in DOMAIN events : events[i] = "registryClosed"})

\* C18: metaStore.Close is called once; whether it fails or not startDaemon
\* goes on to log the completion and returns.
C18_CloseBestEffort ==
    /\ [](CloseCount <= 1)
    /\ [][(pcMain = "closeMeta" /\ pcMain' # pcMain) => pcMain' = "logDone"]_vars
    /\ [][(pcMain = "logDone" /\ pcMain' # pcMain) => pcMain' = "returned"]_vars
    /\ [](pcMain = "logDone" => ENABLED LogDone)
    /\ [](Logged("Failed to close meta db") => pcMain \in {"logDone", "returned"})
    /\ []((pcMain = "returned" /\ CloseCount = 1) => Logged("Graceful shutdown completed."))

C18_Witness ==
    /\ pcMain = "returned"
    /\ Logged("Failed to close meta db")
    /\ Logged("Graceful shutdown completed.")
    /\ CloseCount = 1

\* ---- C19 -----------------------------------------------------------------
\* the steps of startDaemon after its send on shutdownSig
MainShutdownStep == RecvAck \/ CloseMeta \/ LogDone

\* the steps of the cleanup goroutine inside cleanupClusters
CleanupStep ==
    \/ SweepList \/ Partition \/ PartitionDone \/ Launch \/ LaunchDone
    \/ DrainRecv \/ DrainDone \/ SweepReturn

\* The liveness check starts from the stores that hold at most the first two
\* clusters.
FairInit == Init /\ \A cl \in registry : Rank(cl.ID) < Len(IDSeq)

\* Every goroutine that can run does run, getAllClusters and killCluster
\* return, and the select takes the shutdown case when it comes back to it
\* often enough with startDaemon waiting on its send.
FairSpec ==
    /\ FairInit
    /\ [][Next]_vars
    /\ WF_vars(MainShutdownStep)
    /\ WF_vars(CleanupStep)
    /\ WF_vars(KillReturn)
    /\ SF_vars(SendShutdown)

\* C19: once the listener has stopped, startDaemon hands over the shutdown
\* request, gets the acknowledgement, closes the store and returns.
C19_ShutdownTerminates ==
    Happened("listenerStopped") ~> (pcMain = "returned" /\ events = ShutdownSequence)

C19_Witness ==
    /\ pcMain = "returned"
    /\ events = ShutdownSequence
    /\ Cardinality(registry) = 2
    /\ Logged("Failed to cleanup old clusters: teardown")
    /\ Logged("Failed to cleanup old clusters: listing")

\* ---- C20 -----------------------------------------------------------------
\* C20: when ListenAndServe returned without any signal received, startDaemon
\* still goes through the handshake: it is past its send only with the
\* cleanup goroutine in or past its acknowledgement, and the store is closed
\* only after the acknowledgement was received and that goroutine is over.
C20_SameSequenceWithoutSignal ==
    (Happened("listenerStopped") /\ ~Logged("Received shutdown signal")) =>
        /\ pcMain \in {"sendShutdown", "waitAck", "closeMeta", "logDone", "returned"}
        /\ pcMain = "waitAck" => pcRec = "ack"
        /\ pcMain \in {"closeMeta", "logDone", "returned"} =>
              (pcRec = "done" /\ AckCount = 1 /\ tasks = {})
        /\ ~metaOpen => (AckCount = 1 /\ events = ShutdownSequence)

C20_Witness ==
    /\ pcMain = "returned"
    /\ events = ShutdownSequence
    /\ ~Logged("Received shutdown signal")
    /\ c = 0
    /\ srv = "failed"
====
